---- MODULE Spec2Model ----
(***************************************************************************)
(* Move validation of a 9x9 Sudoku board made of nine 3x3 sub-grids        *)
(* (src/src/main.rs): SubGrid, SudokuBoard, SudokuApp.                      *)
(*                                                                         *)
(* Option<T> is modelled as a sequence of length <= 1: None is <<>> and    *)
(* Some(v) is <<v>>.  Vec<T> is a sequence.  HashMap<K, V> is a function;   *)
(* its iteration order is unspecified in Rust, so every operation that     *)
(* iterates a HashMap takes the order as a parameter and the actions       *)
(* choose it from HashOrders.                                              *)
(***************************************************************************)
EXTENDS Integers, Sequences, FiniteSets, TLC

VARIABLES
    board,          \* SudokuBoard.sub_grids of the board under play
    move_history,   \* SudokuApp.move_history
    nr_mistakes,    \* SudokuApp.nr_mistakes (u8)
    sub_grid,       \* SubGrid.cells of a stand-alone SubGrid (as the unit tests build)
    last,           \* the last operation called: its name, argument and return value
    written,        \* history: coordinates / positions a digit 0-9 was written to
    submissions     \* history: the moves submitted to the session with their results

vars == <<board, move_history, nr_mistakes, sub_grid, last, written, submissions>>

-----------------------------------------------------------------------------
(* Bounds of the model *)

\* the board actions keep at most this many cells of the board filled
MaxBoardFilled == 3

\* the stand-alone SubGrid actions keep at most this many of its cells filled
MaxSubGridFilled == 4

\* the session accepts at most this many submissions
MaxMoves == 3

-----------------------------------------------------------------------------
(* Option, Vec *)

None == <<>>

Some(v) == <<v>>

Range(s) == {s[i] : i \in DOMAIN s}

\* a Vec without repeated elements
NoRepeats(s) == \A i, j \in DOMAIN s : s[i] = s[j] => i = j

-----------------------------------------------------------------------------
(* Coordinate model *)

Row_all == <<"Upper", "Center", "Bottom">>

Column_all == <<"Left", "Center", "Right">>

PositionId(r, c) == [row |-> r, column |-> c]

PositionIds == {PositionId(r, c) : r \in Range(Row_all), c \in Range(Column_all)}

CellCoordinate(sg, c) == [sub_grid |-> sg, cell |-> c]

CellCoordinates == {CellCoordinate(sg, c) : sg \in PositionIds, c \in PositionIds}

SubGridMove(c, v) == [cell |-> c, value |-> v]

SudokuMove(cc, v) == [cell_coordinate |-> cc, value |-> v]

\* the keys in row-major order, and that order reversed: two of the orders a
\* HashMap<PositionId, _> may iterate in
RowMajor == [i \in 1..9 |-> PositionId(Row_all[((i - 1) \div 3) + 1], Column_all[((i - 1) % 3) + 1])]

HashOrders == {RowMajor, [i \in 1..9 |-> RowMajor[10 - i]]}

-----------------------------------------------------------------------------
(* keys_with_duplicate_values *)

\* value_counts after the counting loop: occurrences of each Some(value)
value_counts(map) ==
    [v \in {map[k][1] : k \in {kk \in DOMAIN map : map[kk] # None}} |->
        Cardinality({k \in DOMAIN map : map[k] = Some(v)})]

\* variant: keeps a key only when its value occurs more than twice
keys_with_duplicate_values_over_two(map, order) ==
    LET keep(k) == k \in DOMAIN map /\ map[k] # None /\ value_counts(map)[map[k][1]] > 2
    IN  SelectSeq(order, keep)

\* map.iter().filter(count > 1).map(key).collect(), iterating in `order`
keys_with_duplicate_values(map, order) ==
    LET keep(k) == k \in DOMAIN map /\ map[k] # None /\ value_counts(map)[map[k][1]] > 1
    IN  SelectSeq(order, keep)

-----------------------------------------------------------------------------
(* SubGrid: the value modelled is its only field, cells *)

SubGrid_new == [p \in PositionIds |-> None]

Ok == [tag |-> "Ok", cells |-> <<>>]

Invalid(cells) == [tag |-> "Invalid", cells |-> cells]

Err == [tag |-> "Err", cells |-> <<>>]

\* variant: the range check admits 10
SubGrid_update_value_le(cells, key, value) ==
    IF value <= 10
    THEN [cells |-> IF key \in DOMAIN cells THEN [cells EXCEPT ![key] = Some(value)] ELSE cells,
          ret |-> Ok]
    ELSE [cells |-> cells, ret |-> Err]

\* returns the SubGrid after the call and the Result returned
SubGrid_update_value(cells, key, value) ==
    IF value < 10
    THEN [cells |-> IF key \in DOMAIN cells THEN [cells EXCEPT ![key] = Some(value)] ELSE cells,
          ret |-> Ok]
    ELSE [cells |-> cells, ret |-> Err]

SubGrid_get_value(cells, key) ==
    IF key \in DOMAIN cells THEN cells[key] ELSE None

\* Some(vec) when the Vec has elements, None otherwise
NonEmpty(vec) == IF Len(vec) > 0 THEN Some(vec) ELSE None

\* what `if let Some(found) = option { vec.extend(found) }` adds to vec
Found(option) == IF option # None THEN option[1] ELSE <<>>

\* Invalid(cells) when cells were collected, Ok otherwise
MoveResult(invalid_cells) ==
    IF Len(invalid_cells) > 0 THEN Invalid(invalid_cells) ELSE Ok

SubGrid_get_duplicates(cells, order) ==
    NonEmpty(keys_with_duplicate_values(cells, order))

\* variant: the duplicate check runs on the block as it was before the write
SubGrid_make_move_check_first(cells, sub_grid_move, order) ==
    IF sub_grid_move.cell \in DOMAIN cells
    THEN [cells |-> SubGrid_update_value(cells, sub_grid_move.cell, sub_grid_move.value).cells,
          ret |-> MoveResult(Found(SubGrid_get_duplicates(cells, order)))]
    ELSE [cells |-> cells, ret |-> Ok]

\* the SubGrid after update_value and the result of the duplicate check on it
SubGrid_checked(after, order) ==
    [cells |-> after, ret |-> MoveResult(Found(SubGrid_get_duplicates(after, order)))]

\* returns the SubGrid after the call and the SubgridMoveResult returned; the
\* Result of update_value is dropped, as the code drops it
SubGrid_make_move(cells, sub_grid_move, order) ==
    IF sub_grid_move.cell \in DOMAIN cells
    THEN SubGrid_checked(
             SubGrid_update_value(cells, sub_grid_move.cell, sub_grid_move.value).cells, order)
    ELSE [cells |-> cells, ret |-> Ok]

-----------------------------------------------------------------------------
(* SudokuBoard: the value modelled is its only field, sub_grids *)

SudokuBoard_new == [p \in PositionIds |-> SubGrid_new]

SudokuBoard_update_value(sub_grids, cell_coordinate, value) ==
    IF cell_coordinate.sub_grid \in DOMAIN sub_grids
    THEN [sub_grids EXCEPT ![cell_coordinate.sub_grid] =
              SubGrid_update_value(@, cell_coordinate.cell, value).cells]
    ELSE sub_grids

\* variant: the block address and the local address are taken for each other
SudokuBoard_get_value_swapped(sub_grids, cell_coordinate) ==
    IF cell_coordinate.cell \in DOMAIN sub_grids
    THEN SubGrid_get_value(sub_grids[cell_coordinate.cell], cell_coordinate.sub_grid)
    ELSE None

SudokuBoard_get_value(sub_grids, cell_coordinate) ==
    IF cell_coordinate.sub_grid \in DOMAIN sub_grids
    THEN SubGrid_get_value(sub_grids[cell_coordinate.sub_grid], cell_coordinate.cell)
    ELSE None

\* the cells the two nested loops visit, in visiting order: the outer loop runs
\* over the sub-grid positions, the inner loop over the cell positions
Visited(sub_grid_positions, cell_positions) ==
    [i \in 1..(Len(sub_grid_positions) * Len(cell_positions)) |->
        CellCoordinate(sub_grid_positions[((i - 1) \div Len(cell_positions)) + 1],
                       cell_positions[((i - 1) % Len(cell_positions)) + 1])]

\* of the visited cells, those of a known sub-grid holding Some(value)
Matching(sub_grids, visited, value) ==
    LET hit(cc) == /\ cc.sub_grid \in DOMAIN sub_grids
                   /\ SubGrid_get_value(sub_grids[cc.sub_grid], cc.cell) = Some(value)
    IN  SelectSeq(visited, hit)

\* variant: the cell position is built from the sub-grid's row, not the cell's
SudokuBoard_get_row_duplicates_block_row(sub_grids, sudoku_move) ==
    LET sub_grid_pos == [i \in DOMAIN Column_all |->
                            PositionId(sudoku_move.cell_coordinate.sub_grid.row, Column_all[i])]
        cell_pos == [i \in DOMAIN Column_all |->
                        PositionId(sudoku_move.cell_coordinate.sub_grid.row, Column_all[i])]
    IN  NonEmpty(Matching(sub_grids, Visited(sub_grid_pos, cell_pos), sudoku_move.value))

SudokuBoard_get_row_duplicates(sub_grids, sudoku_move) ==
    LET sub_grid_pos == [i \in DOMAIN Column_all |->
                            PositionId(sudoku_move.cell_coordinate.sub_grid.row, Column_all[i])]
        cell_pos == [i \in DOMAIN Column_all |->
                        PositionId(sudoku_move.cell_coordinate.cell.row, Column_all[i])]
    IN  NonEmpty(Matching(sub_grids, Visited(sub_grid_pos, cell_pos), sudoku_move.value))

SudokuBoard_get_column_duplicates(sub_grids, sudoku_move) ==
    LET sub_grid_pos == [i \in DOMAIN Row_all |->
                            PositionId(Row_all[i], sudoku_move.cell_coordinate.sub_grid.column)]
        cell_pos == [i \in DOMAIN Row_all |->
                        PositionId(Row_all[i], sudoku_move.cell_coordinate.cell.column)]
    IN  NonEmpty(Matching(sub_grids, Visited(sub_grid_pos, cell_pos), sudoku_move.value))

\* variant: the reported positions are taken as sub-grid addresses
SudokuBoard_block_checked_swapped(sub_grids, sg, r) ==
    [sub_grids |-> [sub_grids EXCEPT ![sg] = r.cells],
     coordinates |-> IF r.ret.tag = "Invalid"
                     THEN [i \in 1..Len(r.ret.cells) |-> CellCoordinate(r.ret.cells[i], sg)]
                     ELSE <<>>]

\* the board with the addressed SubGrid replaced by the one its make_move left,
\* and the cells that make_move reported, as coordinates of the move's sub-grid
SudokuBoard_block_checked(sub_grids, sg, r) ==
    [sub_grids |-> [sub_grids EXCEPT ![sg] = r.cells],
     coordinates |-> IF r.ret.tag = "Invalid"
                     THEN [i \in 1..Len(r.ret.cells) |-> CellCoordinate(sg, r.ret.cells[i])]
                     ELSE <<>>]

\* the block-local part of make_move
SudokuBoard_make_move_block(sub_grids, sudoku_move, order) ==
    IF sudoku_move.cell_coordinate.sub_grid \in DOMAIN sub_grids
    THEN SudokuBoard_block_checked(
             sub_grids, sudoku_move.cell_coordinate.sub_grid,
             SubGrid_make_move(sub_grids[sudoku_move.cell_coordinate.sub_grid],
                               SubGridMove(sudoku_move.cell_coordinate.cell, sudoku_move.value),
                               order))
    ELSE [sub_grids |-> sub_grids, coordinates |-> <<>>]

\* the row and column part of make_move, on the board the block part left
SudokuBoard_row_column_checked(blk, sudoku_move) ==
    [sub_grids |-> blk.sub_grids,
     ret |-> MoveResult(
                 blk.coordinates
                 \o Found(SudokuBoard_get_row_duplicates(blk.sub_grids, sudoku_move))
                 \o Found(SudokuBoard_get_column_duplicates(blk.sub_grids, sudoku_move)))]

\* returns the board after the call and the SudokuMoveResult returned
SudokuBoard_make_move(sub_grids, sudoku_move, order) ==
    SudokuBoard_row_column_checked(
        SudokuBoard_make_move_block(sub_grids, sudoku_move, order), sudoku_move)

-----------------------------------------------------------------------------
(* SudokuApp *)

\* variant: the mistake counter starts at 1
SudokuApp_new_one_mistake ==
    [board |-> SudokuBoard_new, move_history |-> <<>>, nr_mistakes |-> 1]

SudokuApp_new ==
    [board |-> SudokuBoard_new, move_history |-> <<>>, nr_mistakes |-> 0]

\* nr_mistakes is a u8
U8Range == 256

\* the session after the board returned `r` for the submitted move: the move
\* is appended to the history and counted as a mistake when it was rejected
SudokuApp_recorded(app_move_history, app_nr_mistakes, sudoku_move, r) ==
    [board |-> r.sub_grids,
     move_history |-> Append(app_move_history, sudoku_move),
     nr_mistakes |-> IF r.ret.tag = "Invalid"
                     THEN (app_nr_mistakes + 1) % U8Range
                     ELSE app_nr_mistakes,
     ret |-> r.ret]

\* submit of the session layer: apply the move to the board, then record it
SudokuApp_submit(app_board, app_move_history, app_nr_mistakes, sudoku_move, order) ==
    SudokuApp_recorded(app_move_history, app_nr_mistakes, sudoku_move,
                       SudokuBoard_make_move(app_board, sudoku_move, order))

-----------------------------------------------------------------------------
(* Inputs of the operations *)

\* the coordinates the board operations are called on: three cells of one
\* sub-grid (two sharing a local row, two a local column), a cell of the next
\* sub-grid in the same global row, a cell of the sub-grid below in the same
\* global column; the last two share nothing with each other
BoardInputCoordinates ==
    {CellCoordinate(PositionId("Upper", "Left"), PositionId("Center", "Left")),
     CellCoordinate(PositionId("Upper", "Left"), PositionId("Center", "Right")),
     CellCoordinate(PositionId("Upper", "Left"), PositionId("Upper", "Right")),
     CellCoordinate(PositionId("Upper", "Center"), PositionId("Center", "Left")),
     CellCoordinate(PositionId("Center", "Left"), PositionId("Upper", "Right"))}

\* u8 values: two digits and the first value the range check refuses
BoardInputValues == {5, 9, 10}

\* the positions the stand-alone SubGrid operations are called on
SubGridInputCells ==
    {PositionId("Upper", "Left"), PositionId("Upper", "Center"), PositionId("Upper", "Right"),
     PositionId("Center", "Left"), PositionId("Center", "Right"), PositionId("Bottom", "Center")}

\* u8 values: the smallest and the largest digit, the first value refused
SubGridInputValues == {0, 9, 10}

AppInputValues == {5, 10}

BoardInputMoves == {SudokuMove(cc, v) : cc \in BoardInputCoordinates, v \in BoardInputValues}

AppInputMoves == {SudokuMove(cc, v) : cc \in BoardInputCoordinates, v \in AppInputValues}

SubGridInputMoves == {SubGridMove(c, v) : c \in SubGridInputCells, v \in SubGridInputValues}

\* number of cells holding Some(_)
SubGridFilled(cells) == Cardinality({k \in DOMAIN cells : cells[k] # None})

BoardFilled(sub_grids) ==
    Cardinality({cc \in CellCoordinates : sub_grids[cc.sub_grid][cc.cell] # None})

-----------------------------------------------------------------------------
(* State machine *)

Init ==
    /\ board = SudokuApp_new.board
    /\ move_history = SudokuApp_new.move_history
    /\ nr_mistakes = SudokuApp_new.nr_mistakes
    /\ sub_grid = SubGrid_new
    /\ last = [op |-> "new", arg |-> <<>>, ret |-> <<>>]
    /\ written = {}
    /\ submissions = <<>>

\* SudokuBoard::make_move
MakeMove(sudoku_move, order) ==
    LET r == SudokuBoard_make_move(board, sudoku_move, order)
    IN  /\ BoardFilled(r.sub_grids) <= MaxBoardFilled
        /\ board' = r.sub_grids
        /\ last' = [op |-> "SudokuBoard::make_move", arg |-> sudoku_move, ret |-> r.ret]
        /\ written' = IF sudoku_move.value < 10
                      THEN written \cup {sudoku_move.cell_coordinate}
                      ELSE written
        /\ UNCHANGED <<move_history, nr_mistakes, sub_grid, submissions>>

\* SudokuBoard::update_value
UpdateValue(cell_coordinate, value) ==
    LET after == SudokuBoard_update_value(board, cell_coordinate, value)
    IN  /\ BoardFilled(after) <= MaxBoardFilled
        /\ board' = after
        /\ last' = [op |-> "SudokuBoard::update_value",
                    arg |-> SudokuMove(cell_coordinate, value), ret |-> <<>>]
        /\ written' = IF value < 10 THEN written \cup {cell_coordinate} ELSE written
        /\ UNCHANGED <<move_history, nr_mistakes, sub_grid, submissions>>

\* SudokuBoard::get_value
GetValue(cell_coordinate) ==
    /\ last' = [op |-> "SudokuBoard::get_value", arg |-> cell_coordinate,
                ret |-> SudokuBoard_get_value(board, cell_coordinate)]
    /\ UNCHANGED <<board, move_history, nr_mistakes, sub_grid, written, submissions>>

\* SudokuBoard::get_row_duplicates
GetRowDuplicates(sudoku_move) ==
    /\ last' = [op |-> "SudokuBoard::get_row_duplicates", arg |-> sudoku_move,
                ret |-> SudokuBoard_get_row_duplicates(board, sudoku_move)]
    /\ UNCHANGED <<board, move_history, nr_mistakes, sub_grid, written, submissions>>

\* SudokuBoard::get_column_duplicates
GetColumnDuplicates(sudoku_move) ==
    /\ last' = [op |-> "SudokuBoard::get_column_duplicates", arg |-> sudoku_move,
                ret |-> SudokuBoard_get_column_duplicates(board, sudoku_move)]
    /\ UNCHANGED <<board, move_history, nr_mistakes, sub_grid, written, submissions>>

Next ==
    \/ \E m \in BoardInputMoves, order \in HashOrders : MakeMove(m, order)
    \/ \E m \in BoardInputMoves : UpdateValue(m.cell_coordinate, m.value)
    \/ \E cc \in BoardInputCoordinates : GetValue(cc)
    \/ \E m \in BoardInputMoves : GetRowDuplicates(m)
    \/ \E m \in BoardInputMoves : GetColumnDuplicates(m)

Spec == Init /\ [][Next]_vars

\* SubGrid::update_value on the stand-alone SubGrid
SubGridUpdateValue(key, value) ==
    LET r == SubGrid_update_value(sub_grid, key, value)
    IN  /\ SubGridFilled(r.cells) <= MaxSubGridFilled
        /\ sub_grid' = r.cells
        /\ last' = [op |-> "SubGrid::update_value", arg |-> SubGridMove(key, value),
                    ret |-> r.ret]
        /\ written' = IF value < 10 THEN written \cup {key} ELSE written
        /\ UNCHANGED <<board, move_history, nr_mistakes, submissions>>

\* SubGrid::make_move on the stand-alone SubGrid
SubGridMakeMove(sub_grid_move, order) ==
    LET r == SubGrid_make_move(sub_grid, sub_grid_move, order)
    IN  /\ SubGridFilled(r.cells) <= MaxSubGridFilled
        /\ sub_grid' = r.cells
        /\ last' = [op |-> "SubGrid::make_move", arg |-> sub_grid_move, ret |-> r.ret]
        /\ written' = IF sub_grid_move.value < 10
                      THEN written \cup {sub_grid_move.cell}
                      ELSE written
        /\ UNCHANGED <<board, move_history, nr_mistakes, submissions>>

\* SubGrid::get_duplicates on the stand-alone SubGrid
SubGridGetDuplicates(order) ==
    /\ last' = [op |-> "SubGrid::get_duplicates", arg |-> <<>>,
                ret |-> SubGrid_get_duplicates(sub_grid, order)]
    /\ UNCHANGED <<board, move_history, nr_mistakes, sub_grid, written, submissions>>

NextSubGrid ==
    \/ \E m \in SubGridInputMoves : SubGridUpdateValue(m.cell, m.value)
    \/ \E m \in SubGridInputMoves, order \in HashOrders : SubGridMakeMove(m, order)
    \/ \E order \in HashOrders : SubGridGetDuplicates(order)

SpecSubGrid == Init /\ [][NextSubGrid]_vars

\* a move submitted to the session
Submit(sudoku_move, order) ==
    LET r == SudokuApp_submit(board, move_history, nr_mistakes, sudoku_move, order)
    IN  /\ Len(move_history) < MaxMoves
        /\ board' = r.board
        /\ move_history' = r.move_history
        /\ nr_mistakes' = r.nr_mistakes
        /\ last' = [op |-> "SudokuApp::submit", arg |-> sudoku_move, ret |-> r.ret]
        /\ submissions' = Append(submissions, [move |-> sudoku_move, result |-> r.ret])
        /\ UNCHANGED <<sub_grid, written>>

NextApp == \E m \in AppInputMoves, order \in HashOrders : Submit(m, order)

SpecApp == Init /\ [][NextApp]_vars

-----------------------------------------------------------------------------
(* Vocabulary of the properties, read off the state and not off the operations *)

CellAt(sub_grids, cc) == sub_grids[cc.sub_grid][cc.cell]

SameBlock(a, b) == a.sub_grid = b.sub_grid

SameGlobalRow(a, b) == a.sub_grid.row = b.sub_grid.row /\ a.cell.row = b.cell.row

SameGlobalColumn(a, b) == a.sub_grid.column = b.sub_grid.column /\ a.cell.column = b.cell.column

\* the positions of a block whose digit is also held by another cell of the block
BlockDuplicates(cells) ==
    {p \in DOMAIN cells : cells[p] # None /\ \E q \in DOMAIN cells \ {p} : cells[q] = cells[p]}

\* the move conflicts with nothing: no other cell of its block, global row or
\* global column holds its digit, and its block has no duplicate group
NoConflict(sub_grids, sudoku_move) ==
    /\ \A cc \in CellCoordinates \ {sudoku_move.cell_coordinate} :
           (\/ SameBlock(cc, sudoku_move.cell_coordinate)
            \/ SameGlobalRow(cc, sudoku_move.cell_coordinate)
            \/ SameGlobalColumn(cc, sudoku_move.cell_coordinate))
           => CellAt(sub_grids, cc) # Some(sudoku_move.value)
    /\ BlockDuplicates(sub_grids[sudoku_move.cell_coordinate.sub_grid]) = {}

BoardMoveDone == last.op = "SudokuBoard::make_move"

\* the two cells of the row scenario
RowScenarioFirst == CellCoordinate(PositionId("Upper", "Left"), PositionId("Center", "Right"))

RowScenarioSecond == CellCoordinate(PositionId("Upper", "Center"), PositionId("Center", "Left"))

RowScenarioBoard ==
    \A cc \in CellCoordinates :
        CellAt(board, cc) = IF cc \in {RowScenarioFirst, RowScenarioSecond} THEN Some(5) ELSE None

-----------------------------------------------------------------------------
(* Properties *)

\* C1: SudokuBoard::make_move with a digit 0-9 returns Ok exactly when the move
\* creates no conflict (after the write no other cell of the block, global row
\* or global column holds the digit and the block has no duplicate group); a
\* single move on the empty board is accepted.
C1_AcceptedIffNoConflict ==
    (BoardMoveDone /\ last.arg.value < 10)
    => (last.ret.tag = "Ok" <=> NoConflict(board, last.arg))

\* C2: the conflict collection of a rejected SudokuBoard::make_move holds each
\* CellCoordinate at most once.
C2_ConflictsDeduplicated ==
    (BoardMoveDone /\ last.ret.tag = "Invalid") => NoRepeats(last.ret.cells)

\* C3: SudokuBoard::make_move with a value >= 10 is reported as a failure,
\* neither as Ok nor as Invalid, and the value is not stored.
C3_OutOfRangeDigitFails ==
    (BoardMoveDone /\ last.arg.value >= 10)
    => /\ last.ret.tag \notin {"Ok", "Invalid"}
       /\ CellAt(board, last.arg.cell_coordinate) # Some(last.arg.value)

\* C4 (as stated): every coordinate in the result of a rejected
\* SudokuBoard::make_move holds the played digit in the post-move board and
\* lies in the played cell's block, global row or global column.
C4_ConflictsHoldPlayedDigit ==
    (BoardMoveDone /\ last.arg.value < 10 /\ last.ret.tag = "Invalid")
    => \A cc \in Range(last.ret.cells) :
           /\ CellAt(board, cc) = Some(last.arg.value)
           /\ \/ SameBlock(cc, last.arg.cell_coordinate)
              \/ SameGlobalRow(cc, last.arg.cell_coordinate)
              \/ SameGlobalColumn(cc, last.arg.cell_coordinate)

\* C4 (amended): every coordinate in the result of a rejected
\* SudokuBoard::make_move lies in the played cell's block, global row or
\* global column, and in the post-move board it either holds the played digit
\* or belongs to a duplicate group of the played cell's block, whatever the
\* digit of that group.
C4_ConflictsInScopeOfMove ==
    (BoardMoveDone /\ last.ret.tag = "Invalid")
    => \A cc \in Range(last.ret.cells) :
           \/ /\ CellAt(board, cc) = Some(last.arg.value)
              /\ \/ SameBlock(cc, last.arg.cell_coordinate)
                 \/ SameGlobalRow(cc, last.arg.cell_coordinate)
                 \/ SameGlobalColumn(cc, last.arg.cell_coordinate)
           \/ /\ SameBlock(cc, last.arg.cell_coordinate)
              /\ cc.cell \in BlockDuplicates(board[cc.sub_grid])

\* a rejected move with a digit whose result names a cell holding another digit
C4_Witness ==
    /\ BoardMoveDone
    /\ last.arg.value < 10
    /\ last.ret.tag = "Invalid"
    /\ \E cc \in Range(last.ret.cells) : CellAt(board, cc) # Some(last.arg.value)

\* C5: after make_move or update_value of a digit 0-9 at a coordinate,
\* get_value of that coordinate returns the digit, at board level and in the
\* addressed SubGrid, whatever the move's result; a coordinate no digit was
\* written to reads as empty.
C5_WriteReadRoundTrip ==
    /\ (/\ last.op \in {"SudokuBoard::make_move", "SudokuBoard::update_value"}
        /\ last.arg.value < 10)
       => /\ SudokuBoard_get_value(board, last.arg.cell_coordinate) = Some(last.arg.value)
          /\ SubGrid_get_value(board[last.arg.cell_coordinate.sub_grid],
                               last.arg.cell_coordinate.cell) = Some(last.arg.value)
    /\ \A cc \in CellCoordinates \ written : SudokuBoard_get_value(board, cc) = None

\* a rejected move of a digit whose cell reads back the digit, beside another
\* cell written earlier
C5_Witness ==
    /\ BoardMoveDone
    /\ last.arg.value < 10
    /\ last.ret.tag = "Invalid"
    /\ SudokuBoard_get_value(board, last.arg.cell_coordinate) = Some(last.arg.value)
    /\ Cardinality(written) > 1

\* C6: SubGrid::get_duplicates returns exactly the positions whose digit is
\* held by another cell of the block, each once: no empty cell, no digit
\* occurring once, every member of every group; None when no digit repeats.
C6_DuplicatesExact ==
    (last.op = "SubGrid::get_duplicates")
    => /\ Range(Found(last.ret)) = BlockDuplicates(sub_grid)
       /\ NoRepeats(Found(last.ret))
       /\ (last.ret = None <=> BlockDuplicates(sub_grid) = {})

\* get_duplicates returned two groups of different digits
C6_Witness ==
    /\ last.op = "SubGrid::get_duplicates"
    /\ \E p, q \in Range(Found(last.ret)) : sub_grid[p] # sub_grid[q]
    /\ Len(Found(last.ret)) = 4

\* C7: SubGrid::make_move with a digit 0-9 checks the block after the write:
\* the cell holds the digit, the result is Ok exactly when the post-move block
\* has no duplicated digit, otherwise Invalid with exactly the post-move
\* duplicates, the played cell among them when its digit is held elsewhere.
C7_MakeMoveChecksAfterWrite ==
    (last.op = "SubGrid::make_move" /\ last.arg.value < 10)
    => /\ sub_grid[last.arg.cell] = Some(last.arg.value)
       /\ (last.ret.tag = "Ok" <=> BlockDuplicates(sub_grid) = {})
       /\ (last.ret.tag = "Invalid" =>
              /\ Range(last.ret.cells) = BlockDuplicates(sub_grid)
              /\ NoRepeats(last.ret.cells))
       /\ (\E q \in DOMAIN sub_grid \ {last.arg.cell} : sub_grid[q] = Some(last.arg.value))
          => last.arg.cell \in Range(last.ret.cells)

\* a move of a digit the block already held, rejected with the played cell
C7_Witness ==
    /\ last.op = "SubGrid::make_move"
    /\ last.arg.value < 10
    /\ last.ret.tag = "Invalid"
    /\ last.arg.cell \in Range(last.ret.cells)

\* C8: SubGrid::update_value returns Ok and stores the digit for a value 0-9
\* (no other cell changes); for a value >= 10 it returns Err and leaves every
\* cell of the block unchanged.
C8_UpdateValueRangeCheck ==
    [][(last'.op = "SubGrid::update_value")
       => IF last'.arg.value < 10
          THEN /\ last'.ret.tag = "Ok"
               /\ sub_grid' = [sub_grid EXCEPT ![last'.arg.cell] = Some(last'.arg.value)]
          ELSE /\ last'.ret.tag = "Err"
               /\ sub_grid' = sub_grid]_vars

\* update_value refused a value on a block that holds digits
C8_Witness ==
    /\ last.op = "SubGrid::update_value"
    /\ last.arg.value >= 10
    /\ last.ret.tag = "Err"
    /\ SubGridFilled(sub_grid) > 1

C10_RowDuplicatesExact ==
    (last.op = "SudokuBoard::get_row_duplicates")
    => /\ Range(Found(last.ret))
          = {cc \in CellCoordinates : /\ SameGlobalRow(cc, last.arg.cell_coordinate)
                                      /\ CellAt(board, cc) = Some(last.arg.value)}
       /\ NoRepeats(Found(last.ret))
       /\ Cardinality({cc \in CellCoordinates :
                          SameGlobalRow(cc, last.arg.cell_coordinate)}) = 9
       /\ (RowScenarioBoard /\ last.arg = SudokuMove(RowScenarioSecond, 5))
          => Range(Found(last.ret)) = {RowScenarioFirst, RowScenarioSecond}

\* the row scenario: the query for the second move found the two cells
C10_Witness ==
    /\ last.op = "SudokuBoard::get_row_duplicates"
    /\ RowScenarioBoard
    /\ last.arg = SudokuMove(RowScenarioSecond, 5)
    /\ Len(Found(last.ret)) = 2

====
